---- MODULE Spec2Model ----
(***************************************************************************)
(* Model of the marksheet pipeline of satya25/TEMP-PDF-IMG-TO-EXCEL:       *)
(*   phase1_extract.py  correct_text_context_aware (cell corrector)        *)
(*   phase2_process.py  extract_subject_codes, get_subject_aliases,        *)
(*                      process_csv_to_dataframe (structural decoder)      *)
(*                                                                         *)
(* A Python str is a sequence of characters; a character is a one-element  *)
(* token ("A", " ", "\t"), and a non-ASCII character is named by its code  *)
(* point ("U+00E9" is e-acute, "U+20AC" the Euro sign).  A Python value    *)
(* handed to the corrector is a record [type, s]: type "str" carries the   *)
(* characters in s, the other types (None, float NaN, int) carry none.     *)
(***************************************************************************)
EXTENDS Integers, Sequences, FiniteSets, TLC

VARIABLES
    text,             \* the cell handed to the corrector
    once,             \* correct(text)
    twice,            \* correct(correct(text))
    raw_df,           \* the grid read from the CSV, one row per element
    row_idx,          \* the 0-based index of the next data row
    subject_codes,    \* the codes found in the header row
    subject_aliases,  \* code -> alias
    student_data,     \* the records accepted so far
    ret,              \* what process_csv_to_dataframe returned
    pc

corrector_vars == <<text, once, twice>>
decoder_vars == <<raw_df, row_idx, subject_codes, subject_aliases, student_data, ret>>
vars == <<text, once, twice, raw_df, row_idx, subject_codes, subject_aliases,
          student_data, ret, pc>>

----------------------------------------------------------------------------
(* Bounds of the explored inputs *)

MaxLen == 3
MaxTail == 7
MaxSegs == 3
MaxRows == 1
MaxOrdRows == 3

----------------------------------------------------------------------------
(* Characters *)

LowerSeq == <<"a","b","c","d","e","f","g","h","i","j","k","l","m",
              "n","o","p","q","r","s","t","u","v","w","x","y","z">>
UpperSeq == <<"A","B","C","D","E","F","G","H","I","J","K","L","M",
              "N","O","P","Q","R","S","T","U","V","W","X","Y","Z">>
DigitChars == {"0","1","2","3","4","5","6","7","8","9"}
UpperChars == {UpperSeq[i] : i \in 1..26}
LowerChars == {LowerSeq[i] : i \in 1..26}
PunctChars == {"-", "'", ".", "\"", "_", ",", "/"}
SpaceChars == {" ", "\t"}

IsDigit(c) == c \in DigitChars
IsSpace(c) == c \in SpaceChars
IsLetter(c) == c \in UpperChars \cup LowerChars
\* [\x20-\x7E]
IsPrintable(c) == c \in DigitChars \cup UpperChars \cup LowerChars \cup PunctChars \cup {" "}

\* str.upper() on one character
ToUpper(c) ==
    IF c \in LowerChars THEN UpperSeq[CHOOSE i \in 1..26 : LowerSeq[i] = c]
    ELSE IF c = "U+00E9" THEN "U+00C9"
    ELSE c

----------------------------------------------------------------------------
(* String primitives *)

upper(s) == [i \in 1..Len(s) |-> ToUpper(s[i])]

RECURSIVE lstrip(_)
lstrip(s) == IF s # <<>> /\ IsSpace(Head(s)) THEN lstrip(Tail(s)) ELSE s

RECURSIVE rstrip(_)
rstrip(s) ==
    IF s # <<>> /\ IsSpace(s[Len(s)]) THEN rstrip(SubSeq(s, 1, Len(s) - 1)) ELSE s

strip(s) == rstrip(lstrip(s))

\* str.replace(wrong, right) for one-character wrong and right
replace(s, wrong, right) == [i \in 1..Len(s) |-> IF s[i] = wrong THEN right ELSE s[i]]

\* for wrong, right in table.items(): text = text.replace(wrong, right)
RECURSIVE ApplyTable(_, _)
ApplyTable(s, table) ==
    IF table = <<>> THEN s
    ELSE ApplyTable(replace(s, table[1][1], table[1][2]), Tail(table))

\* re.sub(r'\s+', '', s)
RemoveSpaces(s) == SelectSeq(s, LAMBDA c : ~IsSpace(c))

\* re.sub(r'\s+', ' ', s)
RECURSIVE CollapseSpaces(_)
CollapseSpaces(s) ==
    IF s = <<>> THEN <<>>
    ELSE IF IsSpace(Head(s))
         THEN <<" ">> \o CollapseSpaces(lstrip(s))
         ELSE <<Head(s)>> \o CollapseSpaces(Tail(s))

AllDigits(s) == \A i \in 1..Len(s) : IsDigit(s[i])
AllSpaces(s) == \A i \in 1..Len(s) : IsSpace(s[i])

\* s[i:i+len(p)] == p
MatchAt(s, i, p) == i + Len(p) - 1 <= Len(s) /\ SubSeq(s, i, i + Len(p) - 1) = p

----------------------------------------------------------------------------
(* phase1_extract.py *)

UsnMinTail == 7
UsnMaxTail == 9

\* re.match(r'^1[BM][A-Z0-9]{7,9}$', temp)
UsnPattern(temp) ==
    /\ Len(temp) >= 2 + UsnMinTail
    /\ Len(temp) <= 2 + UsnMaxTail
    /\ temp[1] = "1"
    /\ temp[2] \in {"B", "M"}
    /\ \A i \in 3..Len(temp) : temp[i] \in UpperChars \cup DigitChars

is_likely_usn(t) ==
    /\ t.type = "str"
    /\ LET txt == strip(upper(t.s))
           temp == replace(replace(replace(txt, "O", "0"), "I", "1"), "B", "8")
       IN UsnPattern(temp)

\* r'^\d+$', r'^[A-FP]$', r'^AB$', r'^\d+\s*\d*$'
MarksPattern(txt) ==
    \/ (txt # <<>> /\ AllDigits(txt))
    \/ (Len(txt) = 1 /\ txt[1] \in {"A","B","C","D","E","F","P"})
    \/ txt = <<"A","B">>
    \/ \E i \in 1..Len(txt) : \E j \in i..Len(txt) :
          /\ AllDigits(SubSeq(txt, 1, i))
          /\ AllSpaces(SubSeq(txt, i + 1, j))
          /\ AllDigits(SubSeq(txt, j + 1, Len(txt)))

is_likely_marks(t) ==
    /\ t.type = "str"
    /\ MarksPattern(upper(strip(t.s)))

always_fixes == << <<"U+20AC", "C">>, <<"U+24B8", "C">>, <<"U+00A9", "C">>,
                   <<"U+2018", "'">>, <<"U+2019", "'">>,
                   <<"U+201C", "\"">>, <<"U+201D", "\"">> >>

\* usn_corrections with lowercase L mistaken for capital I instead of digit one
usn_corrections_l_as_I == << <<"O","0">>, <<"I","1">>, <<"l","I">>,
                             <<"B","8">>, <<"Z","2">>, <<"S","5">> >>

usn_corrections == << <<"O","0">>, <<"I","1">>, <<"l","1">>,
                      <<"B","8">>, <<"Z","2">>, <<"S","5">> >>

marks_corrections == << <<"O","0">>, <<"I","1">>, <<"l","1">>,
                        <<"B","8">>, <<"S","5">> >>

\* re.sub(r'1BM2(I|1)CS', '1BM21CS', s)
RECURSIVE FixUsnYear(_)
FixUsnYear(s) ==
    IF s = <<>> THEN <<>>
    ELSE IF MatchAt(s, 1, <<"1","B","M","2","I","C","S">>)
              \/ MatchAt(s, 1, <<"1","B","M","2","1","C","S">>)
         THEN <<"1","B","M","2","1","C","S">> \o FixUsnYear(SubSeq(s, 8, Len(s)))
         ELSE <<Head(s)>> \o FixUsnYear(Tail(s))

\* re.sub(r'[^A-Z0-9]', '', s)
KeepAlnumUpper(s) == SelectSeq(s, LAMBDA c : c \in UpperChars \cup DigitChars)

\* re.sub(r'[^\x20-\x7E]', ' ', s)
BlankNonPrintable(s) == [i \in 1..Len(s) |-> IF IsPrintable(s[i]) THEN s[i] ELSE " "]

Str(s) == [type |-> "str", s |-> s]

UsnBranch(s) == upper(KeepAlnumUpper(FixUsnYear(ApplyTable(s, usn_corrections))))

MarksBranch(s) == RemoveSpaces(ApplyTable(s, marks_corrections))

\* the text branch applying the number look-alike table to names
TextBranch_digits(s) == strip(CollapseSpaces(BlankNonPrintable(ApplyTable(s, marks_corrections))))

TextBranch(s) == strip(CollapseSpaces(BlankNonPrintable(s)))

\* the category the corrector's if/elif/else picks for a text cell
category(t) ==
    IF t.type # "str" THEN "NotText"
    ELSE LET s == strip(t.s) IN
         IF s = <<>> THEN "Empty"
         ELSE LET f == Str(ApplyTable(s, always_fixes)) IN
              IF is_likely_usn(f) THEN "Identifier"
              ELSE IF is_likely_marks(f) THEN "Mark"
              ELSE "FreeText"

\* text after line 79 (strip) and lines 95-96 (always_fixes)
Fixed(t) == ApplyTable(strip(t.s), always_fixes)

\* the corrector returning the untrimmed original for a blank cell
correct_returns_original(t) ==
    LET c == category(t) IN
    IF c = "NotText" THEN t
    ELSE IF c = "Empty" THEN t
    ELSE IF c = "Identifier" THEN Str(UsnBranch(Fixed(t)))
    ELSE IF c = "Mark" THEN Str(MarksBranch(Fixed(t)))
    ELSE Str(TextBranch(Fixed(t)))

correct_text_context_aware(t) ==
    LET c == category(t) IN
    IF c = "NotText" THEN t
    ELSE IF c = "Empty" THEN Str(<<>>)
    ELSE IF c = "Identifier" THEN Str(UsnBranch(Fixed(t)))
    ELSE IF c = "Mark" THEN Str(MarksBranch(Fixed(t)))
    ELSE Str(TextBranch(Fixed(t)))

----------------------------------------------------------------------------
(* phase2_process.py *)

DigitSeq == <<"0","1","2","3","4","5","6","7","8","9">>

\* int(s) for a string of digits
RECURSIVE ToInt(_)
ToInt(s) ==
    IF s = <<>> THEN 0
    ELSE 10 * ToInt(SubSeq(s, 1, Len(s) - 1))
         + (CHOOSE n \in 0..9 : DigitSeq[n + 1] = s[Len(s)])

\* str.isdigit()
isdigit(s) == s # <<>> /\ AllDigits(s)

startswith(s, p) == MatchAt(s, 1, p)

\* re.sub(pat, rep, s) for a literal pattern
RECURSIVE ReSubLiteral(_, _, _)
ReSubLiteral(pat, rep, s) ==
    IF s = <<>> THEN <<>>
    ELSE IF MatchAt(s, 1, pat)
         THEN rep \o ReSubLiteral(pat, rep, SubSeq(s, Len(pat) + 1, Len(s)))
         ELSE <<Head(s)>> \o ReSubLiteral(pat, rep, Tail(s))

clean_usn(usn) ==
    LET u == strip(upper(usn)) IN
    IF u = <<>> THEN <<>>
    ELSE KeepAlnumUpper(replace(replace(replace(u, "O", "0"), "I", "1"), "l", "1"))

\* re.sub(r'[^A-Za-z\s\-\'\.]', ' ', name)
BlankNonNameChars(s) ==
    [i \in 1..Len(s) |->
        IF IsLetter(s[i]) \/ IsSpace(s[i]) \/ s[i] \in {"-", "'", "."} THEN s[i] ELSE " "]

clean_name(name) == strip(CollapseSpaces(BlankNonNameChars(strip(name))))

MinCodeLen == 8

\* lines 84-86: the cell looks like a subject code
LooksLikeCode(cell) ==
    /\ startswith(cell, <<"2","2">>)
    /\ Len(cell) >= MinCodeLen
    /\ ~isdigit(cell)

\* lines 89-94: upper, CST -> CS7, MEZO -> ME2O, spaces removed
NormalizeCode(cell) ==
    RemoveSpaces(
        ReSubLiteral(<<"2","2","M","E","Z","O">>, <<"2","2","M","E","2","O">>,
            ReSubLiteral(<<"2","2","C","S","T">>, <<"2","2","C","S","7">>, upper(cell))))

Last(q) == q[Len(q)]

\* the scan with a set-based "seen before" test instead of the neighbour test
RECURSIVE ScanHeader_seen(_, _, _)
ScanHeader_seen(header_row, i, found) ==
    IF i >= Len(header_row) THEN found
    ELSE LET cell == strip(header_row[i + 1]) IN
         IF cell = <<>> THEN ScanHeader_seen(header_row, i + 1, found)
         ELSE IF LooksLikeCode(cell)
              THEN LET code == NormalizeCode(cell) IN
                   IF \A k \in 1..Len(found) : found[k] # code
                   THEN ScanHeader_seen(header_row, i + 4, Append(found, code))
                   ELSE ScanHeader_seen(header_row, i + 4, found)
              ELSE ScanHeader_seen(header_row, i + 1, found)

\* the scan advancing one column after an accepted code
RECURSIVE ScanHeader_step1(_, _, _)
ScanHeader_step1(header_row, i, found) ==
    IF i >= Len(header_row) THEN found
    ELSE LET cell == strip(header_row[i + 1]) IN
         IF cell = <<>> THEN ScanHeader_step1(header_row, i + 1, found)
         ELSE IF LooksLikeCode(cell)
              THEN LET code == NormalizeCode(cell) IN
                   ScanHeader_step1(header_row, i + 1, Append(found, code))
              ELSE ScanHeader_step1(header_row, i + 1, found)

\* the while loop of lines 75-104; i is the 0-based column
RECURSIVE ScanHeader(_, _, _)
ScanHeader(header_row, i, found) ==
    IF i >= Len(header_row) THEN found
    ELSE LET cell == strip(header_row[i + 1]) IN
         IF cell = <<>> THEN ScanHeader(header_row, i + 1, found)
         ELSE IF LooksLikeCode(cell)
              THEN LET code == NormalizeCode(cell) IN
                   IF found = <<>> \/ code # Last(found)
                   THEN ScanHeader(header_row, i + 4, Append(found, code))
                   ELSE ScanHeader(header_row, i + 4, found)
              ELSE ScanHeader(header_row, i + 1, found)

\* the 0-based columns at which the loop of lines 75-104 appends a code
RECURSIVE ScanHeaderCols(_, _, _, _)
ScanHeaderCols(header_row, i, found, cols) ==
    IF i >= Len(header_row) THEN cols
    ELSE LET cell == strip(header_row[i + 1]) IN
         IF cell = <<>> THEN ScanHeaderCols(header_row, i + 1, found, cols)
         ELSE IF LooksLikeCode(cell)
              THEN LET code == NormalizeCode(cell) IN
                   IF found = <<>> \/ code # Last(found)
                   THEN ScanHeaderCols(header_row, i + 4, Append(found, code), Append(cols, i))
                   ELSE ScanHeaderCols(header_row, i + 4, found, cols)
              ELSE ScanHeaderCols(header_row, i + 1, found, cols)

FirstSubjectCol == 3

extract_subject_codes(header_row) == ScanHeader(header_row, FirstSubjectCol, <<>>)

accepted_columns(header_row) == ScanHeaderCols(header_row, FirstSubjectCol, <<>>, <<>>)

CodeCC == <<"2","2","C","S","7","P","C","C","C","T">>
CodeNLP == <<"2","2","C","S","7","P","E","N","L","P">>
CodeRPA == <<"2","2","C","S","7","P","E","R","P","A">>
CodeDL == <<"2","2","C","S","7","P","E","N","D","L">>
CodeHCI == <<"2","2","C","S","7","P","E","H","C","I">>
CodeCF == <<"2","2","C","S","7","H","S","C","F","I">>
CodeMOOC == <<"2","2","C","S","7","N","C","M","C","I">>
CodeSE == <<"2","2","M","E","2","O","E","S","S","E">>

alias_map ==
    (CodeCC :> <<"C","C">>) @@ (CodeNLP :> <<"N","L","P">>) @@
    (CodeRPA :> <<"R","P","A">>) @@ (CodeDL :> <<"D","L">>) @@
    (CodeHCI :> <<"H","C","I">>) @@ (CodeCF :> <<"C","F">>) @@
    (CodeMOOC :> <<"M","O","O","C">>) @@ (CodeSE :> <<"S","E">>)

AliasLen == 4

Range(q) == {q[k] : k \in 1..Len(q)}
Min(a, b) == IF a < b THEN a ELSE b

get_subject_aliases(codes) ==
    [code \in Range(codes) |->
        IF code \in DOMAIN alias_map THEN alias_map[code]
        ELSE SubSeq(code, 1, Min(AliasLen, Len(code)))]

Components == <<"CIE", "SEE", "TOTAL", "GRADE">>
BlockWidth == 4

EmptyDict == [x \in {} |-> <<>>]

\* record[key] = val
Put(d, key, val) == [x \in DOMAIN d \cup {key} |-> IF x = key THEN val ELSE d[x]]

\* record[f'{name}_CIE'] ... record[f'{name}_GRADE'] = vals[1..4]
PutBlock(d, name, vals) ==
    [x \in DOMAIN d \cup {<<name, Components[j]>> : j \in 1..4} |->
        IF x[1] = name THEN vals[CHOOSE j \in 1..4 : Components[j] = x[2]] ELSE d[x]]

\* row[idx].strip() if idx < len(row) else ""
CellAt(row, idx) == IF idx < Len(row) THEN strip(row[idx + 1]) ELSE <<>>

ReadBlock(row, col_idx) == [j \in 1..4 |-> CellAt(row, col_idx + j - 1)]

EmptyBlock == [j \in 1..4 |-> <<>>]

\* line 236
HasBlock(row, col_idx) == col_idx + 3 < Len(row)

\* the loop of lines 235-268 from the k-th subject on
RECURSIVE ExtractMarks(_, _, _, _, _, _)
ExtractMarks(row, codes, aliases, k, col_idx, marks) ==
    IF k > Len(codes) THEN marks
    ELSE LET code == codes[k] IN
         IF HasBlock(row, col_idx)
         THEN LET vals == ReadBlock(row, col_idx)
                  alias == aliases[code]
                  m1 == PutBlock(marks, code, vals)
                  m2 == IF alias # <<>> THEN PutBlock(m1, alias, vals) ELSE m1
              IN ExtractMarks(row, codes, aliases, k + 1, col_idx + BlockWidth, m2)
         ELSE ExtractMarks(row, codes, aliases, k + 1, col_idx,
                           PutBlock(marks, code, EmptyBlock))

\* line 200
IsEmptyRow(row) ==
    row = <<>> \/ \A j \in 1..Min(3, Len(row)) : strip(row[j]) = <<>>

UsnMinLen == 9

\* line 212
is_valid(usn, name) ==
    \/ (usn # <<>> /\ Len(usn) >= UsnMinLen /\ startswith(usn, <<"1","B","M">>))
    \/ (usn # <<>> /\ name # <<>>)

\* lines 216-223
SlNo(row, accepted) ==
    LET sl_no_raw == IF Len(row) > 0 THEN row[1] ELSE <<>> IN
    IF sl_no_raw # <<>> /\ isdigit(strip(sl_no_raw))
    THEN ToInt(strip(sl_no_raw))
    ELSE Len(accepted) + 1

\* lines 226-268
BuildRecord(row, codes, aliases, accepted) ==
    [ Sl_No |-> SlNo(row, accepted),
      USN |-> clean_usn(IF Len(row) > 1 THEN row[2] ELSE <<>>),
      Student_Name |-> clean_name(IF Len(row) > 2 THEN row[3] ELSE <<>>),
      marks |-> ExtractMarks(row, codes, aliases, 1, FirstSubjectCol, EmptyDict) ]

RowAccepted(row) ==
    /\ ~IsEmptyRow(row)
    /\ is_valid(clean_usn(IF Len(row) > 1 THEN row[2] ELSE <<>>),
                clean_name(IF Len(row) > 2 THEN row[3] ELSE <<>>))

\* df.sort_values('Sl_No'): the orders of the records that are sorted by Sl_No
\* (the order of equal keys is not fixed by the default sort kind)
SortedOrders(data) ==
    {perm \in [1..Len(data) -> 1..Len(data)] :
        /\ \A a, b \in 1..Len(data) : a # b => perm[a] # perm[b]
        /\ \A a \in 1..Len(data) - 1 : data[perm[a]].Sl_No <= data[perm[a + 1]].Sl_No}

\* the post-pass sorting without renumbering
Renumbered_keep(data, perm) ==
    [a \in 1..Len(data) |-> data[perm[a]]]

\* lines 281-282: reorder, then df['Sl_No'] = range(1, len(df) + 1)
Renumbered(data, perm) ==
    [a \in 1..Len(data) |-> [data[perm[a]] EXCEPT !.Sl_No = a]]

HeaderRowIdx == 1
StudentStart == 3

----------------------------------------------------------------------------
(* Cells handed to the corrector *)

Sigma == {"1", "5", "O", "B", "A", "b", " ", "\t", "U+00E9", "U+20AC"}
IdSigma == {"O", "2", "s"}

SeqsUpTo(S, lo, hi) == UNION {[1..n -> S] : n \in lo..hi}

IdPrefixes == {<<"1","B","M">>, <<"1","M">>, <<"1","m">>}

Samples == { <<"1","B","M","2","1","C","S","0","O","1">>,
             <<"1","M","2","1","C","S","0","O","1">>,
             <<"1","B","M","2","I","C","S","1","5","7">>,
             <<"1","M","B","M","2","I","C","S","1","5">>,
             <<"1","m","2","1","c","s","0","0","1">>,
             <<"1","M","-","2","1","C","S","0","0","1">>,
             <<"1","M","l","2","2","2","2","2","2">>,
             <<"1","2"," "," ","3","4">>,
             <<"Z","O","E"," "," ","D","'","S","A">> }

TextCells ==
    {Str(s) : s \in SeqsUpTo(Sigma, 0, MaxLen)}
    \cup {Str(p \o s) : p \in IdPrefixes, s \in SeqsUpTo(IdSigma, UsnMinTail - 1, MaxTail)}
    \cup {Str(s) : s \in Samples}

NonTextCells == {[type |-> ty, s |-> <<>>] : ty \in {"None", "float", "int"}}

NoCell == [type |-> "unset", s |-> <<>>]

----------------------------------------------------------------------------
(* The corrector applied to a cell, and to its own result *)

NoReturn == [returned |-> FALSE, df |-> <<>>, has_df |-> FALSE,
             subject_codes |-> <<>>, subject_aliases |-> EmptyDict]

DecoderIdle ==
    /\ raw_df = <<>>
    /\ row_idx = 0
    /\ subject_codes = <<>>
    /\ subject_aliases = EmptyDict
    /\ student_data = <<>>
    /\ ret = NoReturn

Init ==
    /\ text \in TextCells \cup NonTextCells
    /\ once = NoCell
    /\ twice = NoCell
    /\ pc = "start"
    /\ DecoderIdle

Correct ==
    /\ pc = "start"
    /\ once' = correct_text_context_aware(text)
    /\ pc' = "once"
    /\ UNCHANGED <<text, twice>>
    /\ UNCHANGED decoder_vars

CorrectAgain ==
    /\ pc = "once"
    /\ twice' = correct_text_context_aware(once)
    /\ pc' = "twice"
    /\ UNCHANGED <<text, once>>
    /\ UNCHANGED decoder_vars

Next == Correct \/ CorrectAgain

Spec == Init /\ [][Next]_vars

----------------------------------------------------------------------------
(* Grids handed to the decoder.  A DataFrame is rectangular: every row has  *)
(* as many cells as the header row (read_csv pads short lines, fillna('')   *)
(* turns the padding into empty strings).                                   *)

CellTotal == <<"T","o","t","a","l">>
CellEmpty == <<>>
\* OCR-corrupted spellings of 22CS7PCCCT, and a code without a listed alias
CodeCC_T == <<"2","2","C","S","T","P","C","C","C","T">>
CodeCC_lower == <<" ","2","2","c","s","7","p","c","c","c","t">>
CodeXYZ == <<"2","2","C","S","7","P","E","X","Y","Z">>

\* a header is a run of segments: one cell, or a code repeated on 4 columns
Segments ==
    { <<CellEmpty>>, <<CellTotal>>, <<CodeCC>>,
      <<CodeCC, CodeCC, CodeCC, CodeCC>>,
      <<CodeCC_T, CodeCC_lower, CodeCC_T, CodeCC_T>>,
      <<CodeXYZ, CodeXYZ, CodeXYZ, CodeXYZ>> }

Lead == << <<"S","I"," ","N","o">>, <<"U","S","N">>, <<"N","a","m","e">> >>
LeadWithCode == << <<"S","I"," ","N","o">>, <<"2","2","0","0","0","0","0","0">>, CodeNLP >>

RECURSIVE Flatten(_)
Flatten(segs) == IF segs = <<>> THEN <<>> ELSE Head(segs) \o Flatten(Tail(segs))

HeaderRows ==
    {Lead \o Flatten(segs) : segs \in SeqsUpTo(Segments, 0, MaxSegs)}
    \cup {LeadWithCode \o Flatten(segs) : segs \in SeqsUpTo(Segments, 0, 1)}

\* the text of a 0-based column number
ColStr(c) ==
    IF c < 10 THEN <<DigitSeq[c + 1]>>
    ELSE <<DigitSeq[(c \div 10) + 1], DigitSeq[(c % 10) + 1]>>

MarkCell(fill, c) ==
    IF fill = "blank" THEN <<>>
    ELSE IF fill = "padded" THEN <<" ">> \o ColStr(c) \o <<" ">>
    ELSE ColStr(c)

USN_0O1 == <<"1","B","M","2","1","C","S","0","O","1">>
USN_001 == <<"1","b","m","2","1","c","s","0","0","1">>

\* ordinal, identifier, name and the way the mark cells are filled
RowKinds ==
    { << <<"7">>, USN_0O1, <<"B","O","B">>, "colnum" >>,
      << <<>>, <<"a","b","-","1">>, <<"Z","o","e"," "," ","D","'","S","a","2">>, "padded" >>,
      << <<" ","2"," ">>, USN_001, <<>>, "colnum" >>,
      << <<"3">>, <<"A","B","1">>, <<>>, "colnum" >>,
      << <<>>, <<" ">>, <<>>, "colnum" >>,
      << <<"x">>, USN_0O1, <<"B","O","B">>, "blank" >> }

DataRow(kind, ncols) ==
    [c \in 1..ncols |-> IF c <= 3 THEN kind[c] ELSE MarkCell(kind[4], c - 1)]

BlankRow(ncols) == [c \in 1..ncols |-> <<>>]

\* the row kinds tried with every header: accepted on the identifier, accepted
\* on identifier and name, rejected, skipped as empty
DecodeRowKinds == {kind \in RowKinds : kind[1] \in {<<"7">>, <<>>, <<"3">>}}

Grids ==
    { << BlankRow(Len(h)), h, BlankRow(Len(h)) >>
         \o [r \in 1..Len(kinds) |-> DataRow(kinds[r], Len(h))] :
      h \in HeaderRows, kinds \in SeqsUpTo(DecodeRowKinds, 0, MaxRows) }

----------------------------------------------------------------------------
(* process_csv_to_dataframe *)

Failure(codes, aliases) ==
    [returned |-> TRUE, has_df |-> FALSE, df |-> <<>>,
     subject_codes |-> codes, subject_aliases |-> aliases]

InitDecode ==
    /\ text = NoCell
    /\ once = NoCell
    /\ twice = NoCell
    /\ raw_df \in Grids
    /\ row_idx = 0
    /\ subject_codes = <<>>
    /\ subject_aliases = EmptyDict
    /\ student_data = <<>>
    /\ ret = NoReturn
    /\ pc = "read"

\* the header step going on to the rows without looking at the codes found
ReadHeader_unchecked ==
    /\ pc = "read"
    /\ IF Len(raw_df) <= StudentStart
       THEN /\ ret' = Failure(<<>>, EmptyDict)
            /\ pc' = "done"
            /\ UNCHANGED <<subject_codes, subject_aliases, row_idx>>
       ELSE LET codes == extract_subject_codes(raw_df[HeaderRowIdx + 1]) IN
            /\ subject_codes' = codes
            /\ subject_aliases' = get_subject_aliases(codes)
            /\ row_idx' = StudentStart
            /\ pc' = "rows"
            /\ UNCHANGED ret
    /\ UNCHANGED <<raw_df, student_data>>
    /\ UNCHANGED corrector_vars

\* lines 161-188: read the grid, preview rows 0-3, scan the header row.
\* Indexing a row the grid does not have raises IndexError, which the
\* except clause of lines 294-298 turns into (None, [], {}).
ReadHeader ==
    /\ pc = "read"
    /\ IF Len(raw_df) <= StudentStart
       THEN /\ ret' = Failure(<<>>, EmptyDict)
            /\ pc' = "done"
            /\ UNCHANGED <<subject_codes, subject_aliases, row_idx>>
       ELSE LET codes == extract_subject_codes(raw_df[HeaderRowIdx + 1]) IN
            IF codes = <<>>
            THEN /\ ret' = Failure(<<>>, EmptyDict)
                 /\ pc' = "done"
                 /\ subject_codes' = codes
                 /\ UNCHANGED <<subject_aliases, row_idx>>
            ELSE /\ subject_codes' = codes
                 /\ subject_aliases' = get_subject_aliases(codes)
                 /\ row_idx' = StudentStart
                 /\ pc' = "rows"
                 /\ UNCHANGED ret
    /\ UNCHANGED <<raw_df, student_data>>
    /\ UNCHANGED corrector_vars

\* one iteration of the loop of lines 196-271
DecodeRow ==
    /\ pc = "rows"
    /\ row_idx < Len(raw_df)
    /\ LET row == raw_df[row_idx + 1] IN
       student_data' =
           IF RowAccepted(row)
           THEN Append(student_data,
                       BuildRecord(row, subject_codes, subject_aliases, student_data))
           ELSE student_data
    /\ row_idx' = row_idx + 1
    /\ UNCHANGED <<raw_df, subject_codes, subject_aliases, ret, pc>>
    /\ UNCHANGED corrector_vars

\* lines 274-292: fail without records, else sort, renumber and return
Finish ==
    /\ pc = "rows"
    /\ row_idx >= Len(raw_df)
    /\ IF student_data = <<>>
       THEN ret' = Failure(subject_codes, subject_aliases)
       ELSE \E perm \in SortedOrders(student_data) :
               ret' = [returned |-> TRUE, has_df |-> TRUE,
                       df |-> Renumbered(student_data, perm),
                       subject_codes |-> subject_codes,
                       subject_aliases |-> subject_aliases]
    /\ pc' = "done"
    /\ UNCHANGED <<raw_df, row_idx, subject_codes, subject_aliases, student_data>>
    /\ UNCHANGED corrector_vars

NextDecode == ReadHeader \/ DecodeRow \/ Finish

SpecDecode == InitDecode /\ [][NextDecode]_vars

\* the decoder on grids with one subject and up to MaxOrdRows data rows
OrdinalHeaders == {Lead \o <<CodeCC, CodeCC, CodeCC, CodeCC>>, Lead \o <<CodeCC>>}

OrdinalGrids ==
    { << BlankRow(Len(h)), h, BlankRow(Len(h)) >>
         \o [r \in 1..Len(kinds) |-> DataRow(kinds[r], Len(h))] :
      h \in OrdinalHeaders, kinds \in SeqsUpTo(RowKinds, 0, MaxOrdRows) }

InitOrdinal ==
    /\ text = NoCell
    /\ once = NoCell
    /\ twice = NoCell
    /\ raw_df \in OrdinalGrids
    /\ row_idx = 0
    /\ subject_codes = <<>>
    /\ subject_aliases = EmptyDict
    /\ student_data = <<>>
    /\ ret = NoReturn
    /\ pc = "read"

SpecOrdinal == InitOrdinal /\ [][NextDecode]_vars

----------------------------------------------------------------------------
(* Properties of the corrector *)

Letters(s) == SelectSeq(s, IsLetter)
DigitsOf(s) == SelectSeq(s, IsDigit)
NonAlnumCount(s) == Len(SelectSeq(s, LAMBDA c : ~IsLetter(c) /\ ~IsDigit(c)))

RECURSIVE IsSubseq(_, _)
IsSubseq(a, b) ==
    IF a = <<>> THEN TRUE
    ELSE IF b = <<>> THEN FALSE
    ELSE IF Head(a) = Head(b) THEN IsSubseq(Tail(a), Tail(b))
    ELSE IsSubseq(a, Tail(b))

IsText(t) == t.type = "str"
AsciiOrSpace(t) == \A i \in 1..Len(t.s) : IsPrintable(t.s[i]) \/ IsSpace(t.s[i])

Cell1O5 == Str(<<"1","O","5">>)
CellBOB == Str(<<"B","O","B">>)

\* C1 (as stated): for every text cell, correct(correct(x)) = correct(x).
C1_Idempotent_AllText ==
    (pc = "twice" /\ IsText(text)) => twice = once

\* C1 (amended): for every text cell whose characters are all printable ASCII
\* or whitespace, correct(correct(x)) = correct(x).
C1_Idempotent_Ascii ==
    (pc = "twice" /\ IsText(text) /\ AsciiOrSpace(text)) => twice = once

C1_Witness ==
    /\ pc = "twice"
    /\ IsText(text) /\ AsciiOrSpace(text)
    /\ category(text) = "Identifier"
    /\ once.s # strip(text.s)
    /\ twice = once

\* C2: correct applied to the cell "1O5" returns "105".
C2_Mark1O5 ==
    (pc # "start" /\ text = Cell1O5) => once = Str(<<"1","0","5">>)

IsBMCellWithO(t) ==
    /\ IsText(t)
    /\ Len(t.s) = 3 + UsnMinTail
    /\ SubSeq(t.s, 1, 3) = <<"1","B","M">>
    /\ \A i \in 4..Len(t.s) : t.s[i] \in UpperChars \cup DigitChars
    /\ \E i \in 4..Len(t.s) : t.s[i] = "O"

\* C3: a cell "1BM" + 7 uppercase-alphanumeric characters containing an "O" is
\* classified Identifier and comes back with every "O" replaced by "0".
C3_BMIdentifierCorrected ==
    (pc # "start" /\ IsBMCellWithO(text)) =>
        /\ category(text) = "Identifier"
        /\ Len(once.s) = Len(text.s)
        /\ \A i \in 1..Len(once.s) :
              /\ once.s[i] # "O"
              /\ text.s[i] = "O" => once.s[i] = "0"

C5_IdentifierLength ==
    (pc # "start" /\ category(text) = "Identifier") =>
        Len(once.s) = Len(strip(text.s)) - NonAlnumCount(strip(text.s))

\* C6: for every cell classified FreeText the output contains the input's ASCII
\* letters in the same order and case, no digit appears that the input did not
\* have, and correct("BOB") = "BOB".
C6_FreeTextKeepsLetters ==
    (pc # "start" /\ category(text) = "FreeText") =>
        /\ IsSubseq(Letters(text.s), Letters(once.s))
        /\ DigitsOf(once.s) = DigitsOf(text.s)
        /\ text = CellBOB => once = CellBOB

C6_Witness ==
    /\ pc = "once"
    /\ category(text) = "FreeText"
    /\ \E i \in 1..Len(text.s) : text.s[i] \in {"O", "B"}
    /\ \E i \in 1..Len(text.s) : ~IsPrintable(text.s[i])
    /\ once # text

----------------------------------------------------------------------------
(* Properties of the decoder *)

HeaderRow == raw_df[HeaderRowIdx + 1]
HeaderScanned == pc \in {"rows", "done"} /\ Len(raw_df) > StudentStart
Decoded == pc = "done" /\ ret.returned /\ ret.has_df

\* the subject code a header cell carries
CarriedCode(cell) == NormalizeCode(strip(cell))

NumBlocks(h) == (Len(h) - FirstSubjectCol) \div BlockWidth

\* the cell of block b (1-based) at offset j (1..4)
BlockCell(h, b, j) == h[FirstSubjectCol + BlockWidth * (b - 1) + j]

\* from column 3 on, h is made of blocks of 4 qualifying cells carrying one
\* code each, and adjacent blocks carry different codes
IsBlockHeader(h) ==
    /\ (Len(h) - FirstSubjectCol) % BlockWidth = 0
    /\ \A b \in 1..NumBlocks(h) : \A j \in 1..BlockWidth :
          /\ LooksLikeCode(strip(BlockCell(h, b, j)))
          /\ CarriedCode(BlockCell(h, b, j)) = CarriedCode(BlockCell(h, b, 1))
    /\ \A b \in 1..NumBlocks(h) - 1 :
          CarriedCode(BlockCell(h, b, 1)) # CarriedCode(BlockCell(h, b + 1, 1))

\* C7: for a header row made of K blocks of 4 cells carrying one subject code
\* each (adjacent blocks carrying different codes), the scan returns exactly the
\* K codes, one per block, left to right, whatever columns 0-2 hold.
C7_OneCodePerBlock ==
    (HeaderScanned /\ IsBlockHeader(HeaderRow)) =>
        subject_codes = [b \in 1..NumBlocks(HeaderRow) |->
                            CarriedCode(BlockCell(HeaderRow, b, 1))]

C7_Witness ==
    /\ pc = "rows"
    /\ IsBlockHeader(HeaderRow)
    /\ NumBlocks(HeaderRow) = 2
    /\ Len(subject_codes) = 2

\* C8 (as stated): the returned sequence contains no code more than once.
C8_CodesUnique ==
    HeaderScanned =>
        \A a, b \in 1..Len(subject_codes) :
            a # b => subject_codes[a] # subject_codes[b]

\* C8 (amended): the returned sequence never holds the same code at two
\* consecutive positions (a code met again right after itself is suppressed,
\* also when the two header cells are differently corrupted; a code met again
\* after a different code is listed again).
C8_NoAdjacentRepeat ==
    HeaderScanned =>
        \A a \in 1..Len(subject_codes) - 1 : subject_codes[a] # subject_codes[a + 1]

C8_Witness ==
    /\ pc = "rows"
    /\ Len(HeaderRow) = FirstSubjectCol + 2 * BlockWidth
    /\ HeaderRow[FirstSubjectCol + 1] = CodeCC
    /\ HeaderRow[FirstSubjectCol + BlockWidth + 1] = CodeCC_T
    /\ subject_codes = <<CodeCC>>

CodeKeys(rec) == {key \in DOMAIN rec.marks : key[1] \in Range(ret.subject_codes)}

\* the column where the row decoder looks for the k-th subject's block
RECURSIVE BlockStart(_, _)
BlockStart(row, k) ==
    IF k = 1 THEN FirstSubjectCol
    ELSE IF HasBlock(row, BlockStart(row, k - 1))
         THEN BlockStart(row, k - 1) + BlockWidth
         ELSE BlockStart(row, k - 1)

\* C9: in every successful decode with K discovered codes every record holds
\* exactly 4*K code-keyed score fields, and the four fields of a subject whose
\* block the row is too short to contain are empty strings.
C9_Rectangular ==
    Decoded =>
        \A r \in 1..Len(ret.df) :
            /\ Cardinality(CodeKeys(ret.df[r])) = BlockWidth * Len(ret.subject_codes)
            /\ \A k \in 1..Len(ret.subject_codes) :
                  ~HasBlock(HeaderRow, BlockStart(HeaderRow, k)) =>
                      \A j \in 1..4 :
                          /\ <<ret.subject_codes[k], Components[j]>> \in DOMAIN ret.df[r].marks
                          /\ ret.df[r].marks[<<ret.subject_codes[k], Components[j]>>] = <<>>

\* C10: every record holds, for every discovered subject, the four components
\* under the subject's alias, each equal to the component under its code.
C10_AliasMirrorsCode ==
    Decoded =>
        \A r \in 1..Len(ret.df) : \A k \in 1..Len(ret.subject_codes) : \A j \in 1..4 :
            LET code == ret.subject_codes[k]
                alias == ret.subject_aliases[code]
                marks == ret.df[r].marks
            IN /\ <<alias, Components[j]>> \in DOMAIN marks
               /\ <<code, Components[j]>> \in DOMAIN marks
               /\ marks[<<alias, Components[j]>>] = marks[<<code, Components[j]>>]

\* the data rows of the grid that the row loop accepts, in grid order
AcceptedRows == SelectSeq(SubSeq(raw_df, StudentStart + 1, Len(raw_df)), RowAccepted)

\* column 0 is a clean integer
HasCleanOrdinal(row) == row[1] # <<>> /\ isdigit(strip(row[1]))

\* C11: after a successful decode with N accepted rows, the k-th accepted row
\* was assigned column 0 when it is a clean integer and k otherwise, the output
\* is the accepted records in an order of non-decreasing assigned ordinal, and
\* the final ordinals are 1..N in output order.
C11_SortedAndRenumbered ==
    Decoded =>
        LET N == Len(student_data) IN
        /\ N = Len(AcceptedRows)
        /\ Len(ret.df) = N
        /\ \A k \in 1..N :
              student_data[k].Sl_No =
                  IF HasCleanOrdinal(AcceptedRows[k])
                  THEN ToInt(strip(AcceptedRows[k][1])) ELSE k
        /\ \A a \in 1..N : ret.df[a].Sl_No = a
        /\ \E p \in [1..N -> 1..N] :
              /\ \A a, b \in 1..N : a # b => p[a] # p[b]
              /\ \A a \in 1..N :
                    ret.df[a] = [student_data[p[a]] EXCEPT !.Sl_No = a]
              /\ \A a \in 1..N - 1 :
                    student_data[p[a]].Sl_No <= student_data[p[a + 1]].Sl_No

\* source ordinals [7, "", 2] end as [1, 2, 3], the row numbered 7 last
C11_Witness ==
    /\ Decoded
    /\ Len(raw_df) = StudentStart + 3
    /\ raw_df[StudentStart + 1][1] = <<"7">>
    /\ raw_df[StudentStart + 2][1] = <<>>
    /\ strip(raw_df[StudentStart + 3][1]) = <<"2">>
    /\ Len(ret.df) = 3
    /\ [a \in 1..3 |-> ret.df[a].Sl_No] = <<1, 2, 3>>
    /\ ret.df[3].USN = student_data[1].USN
    /\ student_data[1].Sl_No = 7

\* C12: when the header scan finds no subject code, no data row is ever
\* decoded and the decode returns the no-subject-codes failure: no records,
\* no codes, no aliases, whatever the data rows hold.
C12_NoCodesNoRecords ==
    extract_subject_codes(HeaderRow) = <<>> =>
        /\ pc # "rows"
        /\ row_idx = 0
        /\ student_data = <<>>
        /\ pc = "done" =>
              /\ ret.returned
              /\ ~ret.has_df
              /\ ret.df = <<>>
              /\ ret.subject_codes = <<>>
              /\ ret.subject_aliases = EmptyDict

C12_Witness ==
    /\ pc = "done"
    /\ extract_subject_codes(HeaderRow) = <<>>
    /\ Len(HeaderRow) > FirstSubjectCol
    /\ \E r \in StudentStart + 1..Len(raw_df) : RowAccepted(raw_df[r])
    /\ ret = Failure(<<>>, EmptyDict)

NoRowAccepted == \A r \in StudentStart + 1..Len(raw_df) : ~RowAccepted(raw_df[r])

\* C13: when the header row yields at least one code and no data row is
\* accepted (also when the grid has no data rows), the decode returns the
\* no-student-rows failure, which carries the discovered codes.
C13_NoRowsFailureCarriesCodes ==
    (pc = "done" /\ extract_subject_codes(HeaderRow) # <<>> /\ NoRowAccepted) =>
        /\ ret.returned
        /\ ~ret.has_df
        /\ ret.subject_codes = extract_subject_codes(HeaderRow)
        /\ ret # Failure(<<>>, EmptyDict)

\* the row decoded by the last DecodeRow step, and the record it appended
LastRow == raw_df[row_idx]
RowJustAccepted ==
    /\ pc = "rows"
    /\ row_idx > StudentStart
    /\ RowAccepted(LastRow)

\* the row ends inside the block that starts at column c
EndsInside(row, c) == c < Len(row) /\ Len(row) <= c + BlockWidth - 1

\* C14: when a data row ends inside a subject's block, the record holds the
\* cells the row has, as read, and the empty string only beyond the row.
C14_PartialBlockKept ==
    RowJustAccepted =>
        \A k \in 1..Len(subject_codes) :
            EndsInside(LastRow, BlockStart(LastRow, k)) =>
                \A j \in 1..BlockWidth :
                    Last(student_data).marks[<<subject_codes[k], Components[j]>>]
                        = CellAt(LastRow, BlockStart(LastRow, k) + j - 1)

GradeTokens == {<<"A">>, <<"B">>, <<"C">>, <<"D">>, <<"E">>, <<"F">>, <<"P">>, <<"A","B">>}

\* C15: a Mark cell whose trimmed text is a grade letter (A-F, P) or the absent
\* marker "AB" is returned as that token, unchanged.
C15_GradeTokenUnchanged ==
    (pc # "start" /\ IsText(text) /\ strip(text.s) \in GradeTokens
        /\ category(text) = "Mark") =>
        once = Str(strip(text.s))

\* C16: the k-th code is accepted at header column 3 + 4*(k-1), the column at
\* which the row decoder reads the k-th subject's block.
C16_ColumnsAgree ==
    HeaderScanned =>
        /\ Len(accepted_columns(HeaderRow)) = Len(subject_codes)
        /\ \A k \in 1..Len(subject_codes) :
              /\ accepted_columns(HeaderRow)[k] = FirstSubjectCol + BlockWidth * (k - 1)
              /\ HasBlock(HeaderRow, accepted_columns(HeaderRow)[k]) =>
                    BlockStart(HeaderRow, k) = accepted_columns(HeaderRow)[k]

====
